---- MODULE Spec2Model ----
(***************************************************************************)
(* lisspyscope: generate_lissajous, play_lissajous and plot_lissajous of   *)
(* src/lisspyscope/core.py.                                                *)
(*                                                                         *)
(* Python scalars (base_freq, ratio, sr, the closure duration and the      *)
(* product sr * duration) are modelled bit-exactly: a number is a dyadic   *)
(* rational num / 2^exp tagged with its Python type, and a computed float  *)
(* is an IEEE-754 binary64 value held as its 53 significand bits and the   *)
(* weight of its last bit.  The float32 arrays (t, left, right) are        *)
(* modelled by position: frame k of N lies at k/N of the closure interval, *)
(* and a sample is a fixed-point value of the sine at that phase.          *)
(***************************************************************************)
EXTENDS Integers, Sequences, FiniteSets

VARIABLES pltInstalled, sinkOk, heap, log, screen, speaker

vars == <<pltInstalled, sinkOk, heap, log, screen, speaker>>

-----------------------------------------------------------------------------
(* Numbers as the caller passes them. *)

PyInt(n) == [num |-> n, exp |-> 0, isint |-> TRUE]

PyFloat(n, e) == [num |-> n, exp |-> e, isint |-> FALSE]

Pow2(n) ==
    <<1, 2, 4, 8, 16, 32, 64, 128, 256, 512, 1024, 2048, 4096, 8192, 16384,
      32768, 65536, 131072, 262144, 524288, 1048576, 2097152, 4194304,
      8388608, 16777216, 33554432, 67108864, 134217728, 268435456,
      536870912, 1073741824>>[n + 1]

IsIntegral(v) == v.num % Pow2(v.exp) = 0

-----------------------------------------------------------------------------
(* IEEE-754 binary64 arithmetic on bit sequences (most significant first). *)

MantDig == 53

LimbBits == 13

MaxCandidate == 4

Max(S) == CHOOSE x \in S : \A y \in S : y <= x

Min(S) == CHOOSE x \in S : \A y \in S : x <= y

(* The element of a singleton: {F(v) : v \in {e}} evaluates e once. *)
The(S) == CHOOSE x \in S : TRUE

Zeros(n) == [i \in 1..n |-> 0]

(* The binary digits of n >= 0, without leading zeros. *)
BitsOf(n) ==
    LET len == Min({i \in 0..31 : i = 31 \/ n < Pow2(i)})
    IN  [i \in 1..len |-> (n \div Pow2(len - i)) % 2]

RECURSIVE BitsToInt(_)
BitsToInt(bits) ==
    IF bits = <<>> THEN 0
    ELSE IF Len(bits) = 1 THEN bits[1]
    ELSE LET h == Len(bits) \div 2
         IN  BitsToInt(SubSeq(bits, 1, h)) * Pow2(Len(bits) - h)
             + BitsToInt(SubSeq(bits, h + 1, Len(bits)))

(* The n low bits of v, zero-padded on the left. *)
Padded(v, n) == LET b == BitsOf(v % Pow2(n)) IN Zeros(n - Len(b)) \o b

(* bits + 1: the trailing ones become zeros and the last zero a one. *)
Increment(bits) ==
    LET zs == {i \in 1..Len(bits) : bits[i] = 0}
    IN  IF zs = {} THEN <<1>> \o Zeros(Len(bits))
        ELSE SubSeq(bits, 1, Max(zs) - 1) \o <<1>> \o Zeros(Len(bits) - Max(zs))

(* Round-half-to-even of the significand `bits` (weight of last bit `lsb`):
   `half` says the discarded part is at least half a unit of the last bit,
   `sticky` that it is not exactly zero or half. *)
RoundNearestEven(bits, lsb, half, sticky) ==
    LET up == half /\ (sticky \/ bits[Len(bits)] = 1)
        inc == IF up THEN Increment(bits) ELSE bits
    IN  IF Len(inc) > Len(bits)
        THEN [mant |-> SubSeq(inc, 1, Len(bits)), lsb |-> lsb + 1,
              exact |-> ~(half \/ sticky)]
        ELSE [mant |-> inc, lsb |-> lsb, exact |-> ~(half \/ sticky)]

(* 2^i mod b for 0 <= i < 240 and b < 2^15, by squaring 2^15 mod b. *)
PowMod2(i, b) ==
    LET q  == i \div 15
        s1 == Pow2(15) % b
        s2 == (s1 * s1) % b
        s4 == (s2 * s2) % b
        s8 == (s4 * s4) % b
        p1 == IF q % 2 = 1 THEN s1 ELSE 1
        p2 == IF (q \div 2) % 2 = 1 THEN (p1 * s2) % b ELSE p1
        p4 == IF (q \div 4) % 2 = 1 THEN (p2 * s4) % b ELSE p2
        p8 == IF (q \div 8) % 2 = 1 THEN (p4 * s8) % b ELSE p4
    IN  (p8 * (Pow2(i % 15) % b)) % b

(* Long division of a by b: the remainder after i fraction bits, and the
   i-th fraction bit (of weight 2^-i). *)
DivRem(a, b, i) == ((a % b) * PowMod2(i, b)) % b

DivBit(a, b, i) == (2 * DivRem(a, b, i - 1)) \div b

(* The first MantDig significant bits of a / b, the weight of the last of
   them and the remainder left after it. *)
DivDigits(a, b) ==
    LET int  == BitsOf(a \div b)
        need == (b + a - 1) \div a
        skip == IF a >= b THEN 0
                ELSE Min({i \in 1..30 : Pow2(i) >= need}) - 1
        last == skip + MantDig - Len(int)
    IN  [bits |-> int \o [i \in 1..(last - skip) |-> DivBit(a, b, skip + i)],
         lsb |-> -last, rem |-> DivRem(a, b, last)]

(* a / b for positive integers a, b: the binary64 nearest to the quotient. *)
FloatDiv(a, b) ==
    The({RoundNearestEven(d.bits, d.lsb, 2 * d.rem >= b, (2 * d.rem) % b # 0) :
            d \in {DivDigits(a, b)}})

(* The value of limb j (0 = least significant, LimbBits bits each) of bits. *)
Limb(bits, j) ==
    LET hi == Len(bits) - j * LimbBits
        lo == IF hi - LimbBits + 1 < 1 THEN 1 ELSE hi - LimbBits + 1
    IN  IF hi < 1 THEN 0 ELSE BitsToInt(SubSeq(bits, lo, hi))

(* bits * k for a small positive integer k and Len(bits) <= 5 * LimbBits:
   limb by limb, least significant first. *)
MulLimbs(bits, k) ==
    LET B  == Pow2(LimbBits)
        v0 == Limb(bits, 0) * k
        v1 == Limb(bits, 1) * k + v0 \div B
        v2 == Limb(bits, 2) * k + v1 \div B
        v3 == Limb(bits, 3) * k + v2 \div B
        v4 == Limb(bits, 4) * k + v3 \div B
    IN  BitsOf(v4 \div B) \o Padded(v4, LimbBits) \o Padded(v3, LimbBits)
        \o Padded(v2, LimbBits) \o Padded(v1, LimbBits) \o Padded(v0, LimbBits)

(* The same without leading zeros. *)
MulSmall(bits, k) ==
    The({SubSeq(w, Min({i \in 1..Len(w) : w[i] = 1}), Len(w)) :
            w \in {MulLimbs(bits, k)}})

(* The significand prod (weight of last bit lsb) rounded to MantDig bits. *)
RoundProduct(prod, lsb) ==
    LET drop == Len(prod) - MantDig
    IN  RoundNearestEven(SubSeq(prod, 1, MantDig), lsb + drop,
                         drop > 0 /\ prod[MantDig + 1] = 1,
                         \E j \in (MantDig + 2)..Len(prod) : prod[j] = 1)

(* (k / 2^s) * x for a positive integer k and a binary64 x, rounded. *)
FloatMul(k, s, x) ==
    The({[r EXCEPT !.exact = r.exact /\ x.exact] :
            r \in {RoundProduct(prod, x.lsb - s) : prod \in {MulSmall(x.mant, k)}}})

(* int(x): truncation toward zero of a positive binary64. *)
FloatToInt(x) ==
    IF x.lsb >= 0 THEN BitsToInt(x.mant) * Pow2(x.lsb)
    ELSE IF Len(x.mant) + x.lsb <= 0 THEN 0
    ELSE BitsToInt(SubSeq(x.mant, 1, Len(x.mant) + x.lsb))

-----------------------------------------------------------------------------
(* Internal helpers. *)

Abs(x) == IF x < 0 THEN -x ELSE x

RECURSIVE gcd(_, _)
gcd(a, b) == IF b = 0 THEN a ELSE gcd(b, a % b)

_lcm(a, b) == Abs(a * b) \div gcd(a, b)

(* _lcm(1, ratio) / base_freq, with base_freq = num / 2^exp. *)
_auto_duration(base_freq, ratio) ==
    FloatDiv(_lcm(1, ratio.num) * Pow2(base_freq.exp), base_freq.num)

(* A validation that looks at the sign of ratio only. *)
_validate_sign_only(base_freq, ratio, sr) ==
    IF base_freq.num <= 0 THEN "base_freq must be positive."
    ELSE IF ratio.num <= 0 THEN "ratio must be a positive integer."
    ELSE IF sr.num <= 0 THEN "sample rate must be positive."
    ELSE "ok"

_validate(base_freq, ratio, sr) ==
    IF base_freq.num <= 0 THEN "base_freq must be positive."
    ELSE IF ratio.num <= 0 \/ ~ratio.isint
         THEN "ratio must be a positive integer."
    ELSE IF sr.num <= 0 THEN "sample rate must be positive."
    ELSE "ok"

-----------------------------------------------------------------------------
(* Arrays. *)

One == 1000

NoBuffer == [rows |-> 0, cols |-> 0, data |-> <<>>]

NoFloat == [mant |-> <<>>, lsb |-> 0, exact |-> TRUE]

(* A frame count that never goes below one frame. *)
NumFrames_at_least_one(sr, duration) ==
    The({Max({1, FloatToInt(x)}) : x \in {FloatMul(sr.num, sr.exp, duration)}})

(* int(sr * duration) *)
NumFrames(sr, duration) ==
    The({FloatToInt(x) : x \in {FloatMul(sr.num, sr.exp, duration)}})

(* np.linspace(0.0, duration, n, endpoint=False): sample k sits at the
   fraction <<k, n>> of the duration. *)
linspace(n) == [i \in 1..n |-> <<i - 1, n>>]

(* Bhaskara's rational sine of a/b half-turns, 0 <= a <= b, in units of 1/One. *)
HalfTurnSine(a, b) == (16 * One * a * (b - a)) \div (5 * b * b - 4 * a * (b - a))

(* np.sin at p/q cycles (q > 0, p >= 0). *)
sin(p, q) ==
    The({IF 2 * ((p % q) \div g) < q \div g
         THEN HalfTurnSine(2 * ((p % q) \div g), q \div g)
         ELSE -HalfTurnSine(2 * ((p % q) \div g) - q \div g, q \div g) :
            g \in {gcd(p % q, q)}})

(* np.sin(2 pi f_left t): f_left * duration = cycles, t = frac * duration. *)
left(cycles, t) == [i \in 1..Len(t) |-> sin(cycles * t[i][1], t[i][2])]

(* np.sin(2 pi f_right t + phase), phase = phase_deg / 360 cycles. *)
right(cycles, ratio, phase_deg, t) ==
    [i \in 1..Len(t) |->
        sin(360 * cycles * ratio.num * t[i][1] + phase_deg * t[i][2],
            360 * t[i][2])]

column_stack(l, r) ==
    [rows |-> Len(l), cols |-> 2, data |-> [i \in 1..Len(l) |-> <<l[i], r[i]>>]]

clip_gain(buffer) ==
    [buffer EXCEPT !.data = [i \in 1..Len(buffer.data) |->
        <<2 * buffer.data[i][1], 2 * buffer.data[i][2]>>]]

clamp(x) == IF x < -One THEN -One ELSE IF x > One THEN One ELSE x

(* np.clip(buffer, -1.0, 1.0, out=buffer) *)
clip(buffer) ==
    [buffer EXCEPT !.data = [i \in 1..Len(buffer.data) |->
        The({<<clamp(f[1]), clamp(f[2])>> : f \in {buffer.data[i]}})]]

vstack(b1, b2) ==
    [rows |-> b1.rows + b2.rows, cols |-> b1.cols, data |-> b1.data \o b2.data]

-----------------------------------------------------------------------------
(* Core generator. *)

NotCalled ==
    [outcome |-> "not_called", msg |-> "", buffer |-> NoBuffer, sr |-> PyInt(0),
     cycles |-> 0, duration |-> NoFloat, t |-> <<>>, events |-> <<>>]

(* The body of generate_lissajous once duration and the frame count are known. *)
Waveform(a, duration, n) ==
    [outcome |-> "ok", msg |-> "",
     buffer |-> clip(column_stack(
                    left(_lcm(1, a.ratio.num), linspace(n)),
                    right(_lcm(1, a.ratio.num), a.ratio, a.phase_deg, linspace(n)))),
     sr |-> a.sr, cycles |-> _lcm(1, a.ratio.num), duration |-> duration,
     t |-> linspace(n), events |-> <<"validate", "generate">>]

(* generate_lissajous when _validate raises. *)
Rejected(a) ==
    [NotCalled EXCEPT !.outcome = "ValueError",
                      !.msg = _validate(a.base_freq, a.ratio, a.sr),
                      !.events = <<"validate">>]

(* generate_lissajous when _validate returns. *)
Generated(a) ==
    The(UNION {{Waveform(a, duration, n) : n \in {NumFrames(a.sr, duration)}} :
                  duration \in {_auto_duration(a.base_freq, a.ratio)}})

(* A generator that keeps the arrays it made and hands the same array out
   again for the same arguments. *)
generate_memoized(a) ==
    IF _validate(a.base_freq, a.ratio, a.sr) # "ok" THEN Rejected(a)
    ELSE IF \E i \in 1..Len(log) : log[i].buf # 0 /\ log[i].args = a
    THEN [Generated(a) EXCEPT !.buffer =
            heap[log[Min({i \in 1..Len(log) : log[i].buf # 0 /\ log[i].args = a})].buf]]
    ELSE Generated(a)

generate_lissajous(a) ==
    IF _validate(a.base_freq, a.ratio, a.sr) # "ok" THEN Rejected(a)
    ELSE Generated(a)

-----------------------------------------------------------------------------
(* The inputs explored. *)

Args(bfs, ratios, phases, srs) ==
    [base_freq : bfs, ratio : ratios, phase_deg : phases, sr : srs]

AllArgs ==
    Args({PyInt(-1), PyInt(0), PyInt(8), PyFloat(25, 1), PyInt(49)},
         {PyInt(-1), PyInt(0), PyInt(1), PyInt(2), PyFloat(3, 1)},
         {0, 90},
         {PyInt(-1), PyInt(0), PyInt(1), PyInt(4), PyInt(49), PyInt(98),
          PyFloat(5, 1)})

Call(base_freq, ratio, phase_deg, sr) ==
    [base_freq |-> base_freq, ratio |-> ratio, phase_deg |-> phase_deg, sr |-> sr]

HistArgs ==
    {Call(PyInt(8), PyInt(1), 90, PyInt(49)),
     Call(PyInt(49), PyInt(1), 90, PyInt(98)),
     Call(PyInt(8), PyInt(0), 90, PyInt(49))}

MaxCalls == 3

-----------------------------------------------------------------------------
(* Convenience wrappers.  Each returns what the call did: its outcome, the
   result of its inner generate_lissajous call and the steps it took. *)

(* play_buffer of the audio module: blocks until played, DeviceError when no
   output device can be opened. *)
play_buffer(buffer, sr) ==
    IF sinkOk THEN [outcome |-> "ok", played |-> [buffer |-> buffer, sr |-> sr]]
    ELSE [outcome |-> "DeviceError", played |-> <<>>]

(* What play_lissajous does once generate_lissajous has returned g. *)
PlayGenerated(g) ==
    IF g.outcome # "ok"
    THEN [outcome |-> g.outcome, gen |-> g, played |-> <<>>, drawn |-> <<>>,
          events |-> g.events]
    ELSE [outcome |-> play_buffer(g.buffer, g.sr).outcome, gen |-> g,
          played |-> play_buffer(g.buffer, g.sr).played, drawn |-> <<>>,
          events |-> g.events \o <<"import_audio", "play_buffer">>]

play_import_first(a) ==
    The({[PlayGenerated(g) EXCEPT !.events =
                <<"import_audio">> \o g.events
                \o (IF g.outcome = "ok" THEN <<"play_buffer">> ELSE <<>>)] :
            g \in {generate_lissajous(a)}})

play_lissajous(a) == The({PlayGenerated(g) : g \in {generate_lissajous(a)}})

(* x, y = double_buf.T; plt.plot(x, y) *)
Transposed(buffer) ==
    [x |-> [i \in 1..Len(buffer.data) |-> buffer.data[i][1]],
     y |-> [i \in 1..Len(buffer.data) |-> buffer.data[i][2]]]

double_buf_single(buffer) == buffer

double_buf(buffer) == vstack(buffer, buffer)

(* What plot_lissajous does once generate_lissajous has returned g. *)
PlotGenerated(g) ==
    IF g.outcome # "ok"
    THEN [outcome |-> g.outcome, gen |-> g, played |-> <<>>, drawn |-> <<>>,
          events |-> <<"import_matplotlib">> \o g.events]
    ELSE [outcome |-> "ok", gen |-> g, played |-> <<>>,
          drawn |-> Transposed(double_buf(g.buffer)),
          events |-> <<"import_matplotlib">> \o g.events \o <<"vstack", "plot">>]

plot_lissajous(a) ==
    IF ~pltInstalled
    THEN [outcome |-> "ImportError", gen |-> NotCalled, played |-> <<>>,
          drawn |-> <<>>, events |-> <<"import_matplotlib">>]
    ELSE The({PlotGenerated(g) : g \in {generate_lissajous(a)}})

-----------------------------------------------------------------------------
(* State: which optional collaborators work (pltInstalled, sinkOk), the
   buffers handed to the caller (heap), the calls made so far with what
   each returned (log), and what the renderer and the sink last got. *)

Init ==
    /\ pltInstalled \in BOOLEAN
    /\ sinkOk \in BOOLEAN
    /\ heap = <<>>
    /\ log = <<>>
    /\ screen = <<>>
    /\ speaker = <<>>

(* buffer, sr = generate_lissajous(...) called directly: the caller owns the
   returned buffer, heap[buf]. *)
Generate(a) ==
    \E g \in {generate_lissajous(a)} :
        /\ heap' = IF g.outcome = "ok" THEN Append(heap, g.buffer) ELSE heap
        /\ log' = Append(log, [op |-> "generate", args |-> a,
                               outcome |-> g.outcome, gen |-> g,
                               buf |-> IF g.outcome = "ok" THEN Len(heap) + 1 ELSE 0,
                               events |-> g.events])
        /\ UNCHANGED <<pltInstalled, sinkOk, screen, speaker>>

Play(a) ==
    \E r \in {play_lissajous(a)} :
        /\ log' = Append(log, [op |-> "play", args |-> a, outcome |-> r.outcome,
                               gen |-> r.gen, buf |-> 0, events |-> r.events])
        /\ speaker' = IF r.outcome = "ok" THEN r.played ELSE speaker
        /\ UNCHANGED <<pltInstalled, sinkOk, heap, screen>>

Plot(a) ==
    \E r \in {plot_lissajous(a)} :
        /\ log' = Append(log, [op |-> "plot", args |-> a, outcome |-> r.outcome,
                               gen |-> r.gen, buf |-> 0, events |-> r.events])
        /\ screen' = IF r.outcome = "ok" THEN r.drawn ELSE screen
        /\ UNCHANGED <<pltInstalled, sinkOk, heap, speaker>>

(* The caller overwrites the first frame of a buffer it was handed. *)
CallerWrite(id) ==
    /\ heap[id].data # <<>>
    /\ heap[id].data[1] # <<0, 0>>
    /\ heap' = [heap EXCEPT ![id].data[1] = <<0, 0>>]
    /\ UNCHANGED <<pltInstalled, sinkOk, log, screen, speaker>>

(* One call from a fresh interpreter, over every input. *)
Next ==
    \/ \E a \in AllArgs : log = <<>> /\ Generate(a)
    \/ \E a \in AllArgs : log = <<>> /\ Play(a)
    \/ \E a \in AllArgs : log = <<>> /\ Plot(a)

Spec == Init /\ [][Next]_vars

(* Sessions of up to MaxCalls calls, with the caller writing to its buffers. *)
NextHist ==
    \/ \E a \in HistArgs : Len(log) < MaxCalls /\ Generate(a)
    \/ \E a \in HistArgs : Len(log) < MaxCalls /\ Play(a)
    \/ \E a \in HistArgs : Len(log) < MaxCalls /\ Plot(a)
    \/ \E id \in 1..Len(heap) : CallerWrite(id)

SpecHist == Init /\ [][NextHist]_vars
-----------------------------------------------------------------------------
(* Vocabulary of the properties. *)

Calls == 1..Len(log)

(* Calls in which generate_lissajous ran to its return. *)
Produced == {i \in Calls : log[i].gen.outcome = "ok"}

Positive(v) == v.num > 0

(* The parameters the contract calls valid. *)
ContractValid(a) ==
    /\ Positive(a.base_freq)
    /\ Positive(a.ratio) /\ IsIntegral(a.ratio)
    /\ Positive(a.sr) /\ IsIntegral(a.sr)

(* floor(sr * ratio / base_freq) over the rationals. *)
ExactFrames(a) ==
    (a.sr.num * a.ratio.num * Pow2(a.base_freq.exp))
        \div (a.base_freq.num * Pow2(a.sr.exp))

(* sr * ratio < base_freq over the rationals. *)
BelowOneFrame(a) ==
    a.sr.num * a.ratio.num * Pow2(a.base_freq.exp)
        < a.base_freq.num * Pow2(a.sr.exp)

(* A span of p/q periods of the left channel brings both channels to a
   whole number of cycles. *)
ClosesAfter(p, q, ratio) == p % q = 0 /\ (p * ratio.num) % q = 0

(* Distance in phase, counted in n-ths of a cycle, from the last of n frames
   forward to the first, for a channel making c cycles over the n frames
   (one sample step is c n-ths of a cycle). *)
PhaseGap(c, n) == (n - ((c * (n - 1)) % n)) % n

InUnitRange(x) == -One <= x /\ x <= One

-----------------------------------------------------------------------------
(* C1: generate_lissajous raises ValueError and hands back no buffer
   whenever base_freq <= 0, or ratio <= 0, or ratio is not an integer, or
   sr <= 0, whatever the other parameters are. *)
C1_InvalidInputsRaise ==
    \A i \in Calls :
        (/\ log[i].op = "generate"
         /\ \/ ~Positive(log[i].args.base_freq)
            \/ ~Positive(log[i].args.ratio)
            \/ ~IsIntegral(log[i].args.ratio)
            \/ ~Positive(log[i].args.sr))
        => /\ log[i].outcome = "ValueError"
           /\ log[i].buf = 0
           /\ log[i].gen.buffer = NoBuffer
           /\ Len(heap) = Cardinality({j \in Calls : log[j].buf # 0})

C1_Witness ==
    \E i \in Calls :
        /\ log[i].op = "generate"
        /\ Positive(log[i].args.base_freq)
        /\ Positive(log[i].args.ratio) /\ ~IsIntegral(log[i].args.ratio)
        /\ Positive(log[i].args.sr)
        /\ log[i].outcome = "ValueError"
        /\ heap = <<>>

(* C2: generate_lissajous raises ValueError for every sr that is not a
   positive integer, positive non-integral values included. *)
C2_NonIntegerRateRaises ==
    \A i \in Calls :
        (/\ log[i].op = "generate"
         /\ ~(Positive(log[i].args.sr) /\ IsIntegral(log[i].args.sr)))
        => log[i].outcome = "ValueError"

(* C3: for valid parameters the buffer has floor(sr * ratio / base_freq)
   frames of two channels each, and the returned rate is the one passed. *)
C3_FrameCount ==
    \A i \in Calls :
        (log[i].op = "generate" /\ ContractValid(log[i].args))
        => /\ log[i].outcome = "ok"
           /\ log[i].gen.buffer.rows = ExactFrames(log[i].args)
           /\ Len(log[i].gen.buffer.data) = log[i].gen.buffer.rows
           /\ log[i].gen.buffer.cols = 2
           /\ \A k \in 1..Len(log[i].gen.buffer.data) :
                  Len(log[i].gen.buffer.data[k]) = 2
           /\ log[i].gen.sr = log[i].args.sr

(* C4: every sample of both channels of a returned buffer lies in
   [-1.0, 1.0]. *)
C4_SamplesInUnitRange ==
    \A i \in Produced :
        /\ \A k \in 1..Len(log[i].gen.buffer.data) :
               /\ InUnitRange(log[i].gen.buffer.data[k][1])
               /\ InUnitRange(log[i].gen.buffer.data[k][2])
        /\ log[i].buf # 0 => heap[log[i].buf] = log[i].gen.buffer

C4_Witness ==
    \E i \in Produced :
        /\ log[i].op = "generate"
        /\ log[i].gen.buffer.rows >= 4
        /\ \E k \in 1..Len(log[i].gen.buffer.data) :
               log[i].gen.buffer.data[k][1] = One
        /\ \E k \in 1..Len(log[i].gen.buffer.data) :
               log[i].gen.buffer.data[k][2] = -One

(* C5: no positive span strictly shorter than the computed duration brings
   both channels to a whole number of cycles.  Spans are counted in periods
   of the left channel: the computed one is gen.cycles periods, a candidate
   is p/q periods. *)
C5_ShortestClosure ==
    \A i \in Produced :
        \A p, q \in 1..MaxCandidate :
            p < log[i].gen.cycles * q => ~ClosesAfter(p, q, log[i].args.ratio)

(* C6: two calls of generate_lissajous with the same arguments return the
   same frames and the same rate whatever was called or written in between,
   and every successful call hands out a buffer of its own. *)
C6_SameArgsSameResult ==
    /\ \A i, j \in Calls :
           (/\ log[i].args = log[j].args
            /\ log[i].gen.outcome # "not_called"
            /\ log[j].gen.outcome # "not_called")
           => log[i].gen = log[j].gen
    /\ \A i, j \in Calls :
           (i # j /\ log[i].buf # 0 /\ log[j].buf # 0)
           => log[i].buf # log[j].buf
    /\ \A i \in Calls : log[i].buf <= Len(heap)

C6_Witness ==
    /\ Len(log) = 3
    /\ log[1].op = "generate" /\ log[3].op = "generate"
    /\ log[1].args = log[3].args
    /\ log[2].args # log[1].args /\ log[2].outcome = "ValueError"
    /\ log[1].buf # 0 /\ log[3].buf # 0
    /\ heap[log[1].buf] # log[1].gen.buffer
    /\ heap[log[3].buf] = log[1].gen.buffer

(* C7: for valid parameters with N >= 1 the time samples are k/N of the
   duration for k = 0..N-1, the duration is exactly gen.cycles periods of the
   left channel and gen.cycles * ratio periods of the right one, and the
   last frame of each channel is within one sample step of the phase of the
   first. *)
C7_ClosedGrid ==
    \A i \in Produced :
        (ContractValid(log[i].args) /\ log[i].gen.buffer.rows >= 1)
        => /\ Len(log[i].gen.t) = log[i].gen.buffer.rows
           /\ \A k \in 1..Len(log[i].gen.t) :
                  log[i].gen.t[k] = <<k - 1, Len(log[i].gen.t)>>
           /\ log[i].gen.duration.exact
           /\ \A c \in {log[i].gen.cycles,
                        log[i].gen.cycles * log[i].args.ratio.num} :
                  PhaseGap(c, Len(log[i].gen.t)) <= c

(* C8: plot_lissajous draws 2N frames for a generated buffer of N frames,
   and drawn frames i and i + N both equal generated frame i. *)
C8_DrawnTwice ==
    \A i \in Calls :
        (log[i].op = "plot" /\ log[i].outcome = "ok" /\ i = Len(log))
        => /\ Len(screen.x) = 2 * log[i].gen.buffer.rows
           /\ Len(screen.y) = 2 * log[i].gen.buffer.rows
           /\ \A k \in 1..log[i].gen.buffer.rows :
                  /\ <<screen.x[k], screen.y[k]>> = log[i].gen.buffer.data[k]
                  /\ <<screen.x[k + log[i].gen.buffer.rows],
                       screen.y[k + log[i].gen.buffer.rows]>>
                         = log[i].gen.buffer.data[k]

C8_Witness ==
    \E i \in Calls :
        /\ log[i].op = "plot" /\ log[i].outcome = "ok"
        /\ log[i].gen.buffer.rows >= 2
        /\ log[i].gen.buffer.data[1] # log[i].gen.buffer.data[2]
        /\ Len(screen.x) = 2 * log[i].gen.buffer.rows

(* C9: for parameters that pass validation with sr * ratio < base_freq,
   generate_lissajous returns a buffer of zero frames and two channels
   together with the rate passed in. *)
C9_EmptyBuffer ==
    \A i \in Calls :
        (/\ log[i].op = "generate"
         /\ Positive(log[i].args.base_freq)
         /\ Positive(log[i].args.ratio) /\ log[i].args.ratio.isint
         /\ Positive(log[i].args.sr)
         /\ BelowOneFrame(log[i].args))
        => /\ log[i].outcome = "ok"
           /\ log[i].gen.buffer = [rows |-> 0, cols |-> 2, data |-> <<>>]
           /\ log[i].gen.sr = log[i].args.sr
           /\ log[i].buf # 0

C9_Witness ==
    \E i \in Calls :
        /\ log[i].op = "generate"
        /\ ContractValid(log[i].args)
        /\ BelowOneFrame(log[i].args)
        /\ log[i].outcome = "ok"
        /\ heap = <<[rows |-> 0, cols |-> 2, data |-> <<>>]>>

(* C10: plot_lissajous without matplotlib raises ImportError for every
   parameter tuple before validating or generating anything, and
   play_lissajous with invalid parameters raises ValueError before the
   audio sink is imported or called. *)
C10_CheckOrder ==
    \A i \in Calls :
        /\ (log[i].op = "plot" /\ ~pltInstalled)
           => /\ log[i].outcome = "ImportError"
              /\ log[i].gen = NotCalled
              /\ log[i].events = <<"import_matplotlib">>
              /\ screen = <<>>
        /\ (/\ log[i].op = "play"
            /\ \/ ~Positive(log[i].args.base_freq)
               \/ ~Positive(log[i].args.ratio)
               \/ ~IsIntegral(log[i].args.ratio)
               \/ ~Positive(log[i].args.sr))
           => /\ log[i].outcome = "ValueError"
              /\ \A e \in 1..Len(log[i].events) :
                     log[i].events[e] \notin {"import_audio", "play_buffer"}
              /\ speaker = <<>>

C10_Witness ==
    \E i \in Calls :
        /\ log[i].op = "plot" /\ ~pltInstalled
        /\ ~Positive(log[i].args.ratio)
        /\ log[i].outcome = "ImportError"
        /\ log[i].gen.outcome = "not_called"
====
